---- MODULE Spec2Model ----
(***************************************************************************)
(* Model of ntn_dongle_fw_update.py: the NTNModbusMaster device controller *)
(* and run_firmware_update / main, which unlock the dongle over Modbus and *)
(* hand the serial port to a spawned pymdfu process.                       *)
(***************************************************************************)
EXTENDS Integers, Sequences, FiniteSets

VARIABLES
    args,           \* parsed command line: image, port, dev_id, retry
    pc,             \* position of main / run_firmware_update
    master,         \* NTNModbusMaster.master: "unset", "open" or "closed"
    trace,          \* everything this process did to the outside world
    valid_passwd,   \* local of run_firmware_update
    ret,            \* value returned by the last controller method
    pymdfu_cmd,     \* local of run_firmware_update
    command,        \* local of run_firmware_update
    process,        \* the Popen child: state, stdout, port, rc
    pipe,           \* lines the child wrote that were not read yet
    emitted,        \* number of lines the child wrote
    logged,         \* lines relayed to the logger
    return_code,    \* local of run_firmware_update
    error,          \* the exception in flight or reported
    outcome,        \* "none", "success" or "failure"
    exit_status,    \* exit status of this process, -1 while running
    lastCall        \* controller method call being observed

vars == <<args, pc, master, trace, valid_passwd, ret, pymdfu_cmd, command,
          process, pipe, emitted, logged, return_code, error, outcome,
          exit_status, lastCall>>

(***************************************************************************)
(* Bounds                                                                  *)
(***************************************************************************)
MaxLines == 2
MaxOps == 2

(***************************************************************************)
(* Program constants                                                       *)
(***************************************************************************)
REG_PASSWORD == 0
REG_ENGINEERING == 65488
REG_BOOTLOADER == 53248
REG_RESET == 64768
SENTINEL == 43605
BAUDRATE == 115200
DEFAULT_DEV_ID == 1
READ_INPUT_REGISTERS == 4
WRITE_SINGLE_REGISTER == 6
WRITE_MULTIPLE_REGISTERS == 16

(***************************************************************************)
(* Python values: None, int, str, tuple and list are kept apart by a tag.  *)
(***************************************************************************)
None == [t |-> "none"]
PyInt(n) == [t |-> "int", v |-> n]
PyStr(s) == [t |-> "str", v |-> s]
PyTuple(s) == [t |-> "tuple", v |-> s]
PyList(s) == [t |-> "list", v |-> s]
PyBool(b) == [t |-> "bool", v |-> b]
IsNone(x) == x.t = "none"

NoError == [kind |-> "none"]
NoCall == [op |-> "none"]
NoProcess == [state |-> "none", stdout |-> "closed", port |-> FALSE, rc |-> 0]

Images == {"", "fw.bin"}
Ports == {"/dev/ttyUSB0", "COM3"}
ExitCodes == {-9, 0, 1, 3}

parse_arguments ==
    [image : Images, port : Ports, dev_id : {DEFAULT_DEV_ID}, retry : BOOLEAN]

(***************************************************************************)
(* Events of the trace                                                     *)
(***************************************************************************)
EvOpen(port) == [ev |-> "open", port |-> port]
EvExecute(fc, reg, val, res, out) ==
    [ev |-> "execute", fc |-> fc, reg |-> reg, val |-> val, res |-> res,
     out |-> out]
EvClose(res) == [ev |-> "close", res |-> res]
EvSleep(ms) == [ev |-> "sleep", ms |-> ms]
EvProbe == [ev |-> "probe"]
EvSpawn(cmd) == [ev |-> "spawn", cmd |-> cmd]

(***************************************************************************)
(* The register transport (modbus_tk RtuMaster over pyserial), seen from   *)
(* the controller.  An execute either completes, times out after the port  *)
(* was (re)opened, or fails before the port could be used.  A close either *)
(* releases the port or raises, and a close that raised may or may not     *)
(* have released the port.                                                 *)
(***************************************************************************)
ExecuteResults == {"ok", "timeout", "ioerror"}
CloseResults == {"ok", "raised_held", "raised_released"}
ConnectResults == {"ok", "ModbusError", "SerialException"}

Faulted(res) == res # "ok"

execute_master(m, res) == IF res = "ioerror" THEN m ELSE "open"

close_master(m, res) == IF res = "raised_held" THEN m ELSE "closed"

(***************************************************************************)
(* NTNModbusMaster methods.  Each yields the returned value, the transport *)
(* events it caused and the new state of self.master.  m = "unset" is a    *)
(* controller whose constructor did not finish: the attribute lookup       *)
(* raises and the method's own handler swallows it.                        *)
(***************************************************************************)
Result(r, evs, m) ==
    [ret |-> r, evs |-> evs, master |-> m, raised |-> NoError]

Propagates(e, evs, m) ==
    [ret |-> None, evs |-> evs, master |-> m, raised |-> e]

TransportFault(res) == [kind |-> res]

Reply(res, out) == IF Faulted(res) THEN <<>> ELSE out

read_register(m, reg, res, value) ==
    IF m = "unset" THEN Result(None, <<>>, m)
    ELSE Result(IF Faulted(res) \/ value[1] = 0 THEN None ELSE PyInt(value[1]),
                <<EvExecute(READ_INPUT_REGISTERS, reg, PyInt(1), res,
                            Reply(res, value))>>,
                execute_master(m, res))

read_registers_anyZero(m, reg, num, res, values) ==
    IF m = "unset" THEN Result(None, <<>>, m)
    ELSE Result(IF Faulted(res) \/ \E i \in 1..Len(values) : values[i] = 0
                THEN None ELSE PyTuple(values),
                <<EvExecute(READ_INPUT_REGISTERS, reg, PyInt(num), res,
                            Reply(res, values))>>,
                execute_master(m, res))

read_registers(m, reg, num, res, values) ==
    IF m = "unset" THEN Result(None, <<>>, m)
    ELSE Result(IF Faulted(res) \/ \A i \in 1..Len(values) : values[i] = 0
                THEN None ELSE PyTuple(values),
                <<EvExecute(READ_INPUT_REGISTERS, reg, PyInt(num), res,
                            Reply(res, values))>>,
                execute_master(m, res))

set_registers_unchecked(m, reg, val, res) ==
    IF m = "unset" THEN Result(PyBool(FALSE), <<>>, m)
    ELSE Result(PyBool(~Faulted(res)),
                <<EvExecute(WRITE_MULTIPLE_REGISTERS, reg, val, res, <<>>)>>,
                execute_master(m, res))

set_registers(m, reg, val, res) ==
    IF IsNone(val) THEN Result(PyBool(FALSE), <<>>, m)
    ELSE IF m = "unset" THEN Result(PyBool(FALSE), <<>>, m)
    ELSE Result(PyBool(~Faulted(res)),
                <<EvExecute(WRITE_MULTIPLE_REGISTERS, reg, val, res, <<>>)>>,
                execute_master(m, res))

set_register_leaky(m, reg, val, res) ==
    IF IsNone(val) THEN Result(PyBool(FALSE), <<>>, m)
    ELSE IF m = "unset" THEN Result(PyBool(FALSE), <<>>, m)
    ELSE IF Faulted(res)
    THEN Propagates(TransportFault(res),
                    <<EvExecute(WRITE_SINGLE_REGISTER, reg, val, res, <<>>)>>,
                    execute_master(m, res))
    ELSE Result(PyBool(TRUE),
                <<EvExecute(WRITE_SINGLE_REGISTER, reg, val, res, <<>>)>>,
                execute_master(m, res))

set_register(m, reg, val, res) ==
    IF IsNone(val) THEN Result(PyBool(FALSE), <<>>, m)
    ELSE IF m = "unset" THEN Result(PyBool(FALSE), <<>>, m)
    ELSE Result(PyBool(~Faulted(res)),
                <<EvExecute(WRITE_SINGLE_REGISTER, reg, val, res, <<>>)>>,
                execute_master(m, res))

close_propagates(m, res) ==
    IF m = "unset" THEN Result(None, <<>>, m)
    ELSE IF res = "ok" THEN Result(None, <<EvClose(res)>>, close_master(m, res))
    ELSE Propagates(TransportFault(res), <<EvClose(res)>>,
                    close_master(m, res))

close(m, res) ==
    IF m = "unset" THEN Result(None, <<>>, m)
    ELSE Result(None, <<EvClose(res)>>, close_master(m, res))

(***************************************************************************)
(* find_pymdfu_executable, as a function of what the host looks like.      *)
(***************************************************************************)
SysExecutable == "python"
ScriptsExe == "Scripts/pymdfu.exe"
ScriptsScript == "Scripts/pymdfu"

ProbeResults == {"ok", "nonzero", "TimeoutExpired", "FileNotFoundError"}

Hosts ==
    [which_pymdfu : {"", "/usr/bin/pymdfu"},
     platform : {"linux", "win32"},
     which_exe : {"", "C:/bin/pymdfu.exe"},
     exists_exe : BOOLEAN,
     exists_script : BOOLEAN,
     probe : ProbeResults]

ProbeRuns(host) ==
    /\ host.which_pymdfu = ""
    /\ ~(host.platform = "win32" /\ host.which_exe # "")
    /\ ~(host.platform = "win32" /\ (host.exists_exe \/ host.exists_script))

find_pymdfu_executable(host) ==
    IF host.which_pymdfu # "" THEN PyStr(host.which_pymdfu)
    ELSE IF host.platform = "win32" /\ host.which_exe # ""
    THEN PyStr(host.which_exe)
    ELSE IF host.platform = "win32" /\ host.exists_exe THEN PyStr(ScriptsExe)
    ELSE IF host.platform = "win32" /\ host.exists_script
    THEN PyStr(ScriptsScript)
    ELSE IF host.probe = "ok" THEN PyList(<<SysExecutable, "-m", "pymdfu">>)
    ELSE PyStr("pymdfu")

(***************************************************************************)
(* The decisions of run_firmware_update                                    *)
(***************************************************************************)
MissingImage_inFreshOnly(a) == a.image = "" /\ ~a.retry

MissingImage(a) == a.image = ""

NeedsModbus_always(a) == TRUE

NeedsModbus(a) == ~a.retry

AuthFailed_never(valid) == FALSE

AuthFailed(valid) == ~valid

TransferFailed_positive(rc) == rc > 0

TransferFailed(rc) == rc # 0

ValueError == [kind |-> "ValueError"]
RuntimeError == [kind |-> "RuntimeError"]
ConnectError(k) == [kind |-> k]
SpawnError == [kind |-> "FileNotFoundError"]
CalledProcessError_one(rc, cmd) ==
    [kind |-> "CalledProcessError", returncode |-> 1, cmd |-> cmd]

CalledProcessError(rc, cmd) ==
    [kind |-> "CalledProcessError", returncode |-> rc, cmd |-> cmd]

PasswordBlock == PyTuple(<<0, 0, 0, 0>>)

(***************************************************************************)
(* NTNModbusMaster.__init__: opening the serial port either succeeds or    *)
(* raises; a ModbusError is logged and re-raised, anything else passes     *)
(* through untouched.  Either way no controller object results.            *)
(***************************************************************************)
NTNModbusMaster_swallows(port, res) ==
    IF res = "ok" THEN Result(None, <<EvOpen(port)>>, "open")
    ELSE Result(None, <<>>, "unset")

NTNModbusMaster(port, res) ==
    IF res = "ok" THEN Result(None, <<EvOpen(port)>>, "open")
    ELSE Propagates(ConnectError(res), <<>>, "unset")

UpdateArgs(a) ==
    <<"update", "--tool", "serial", "--port", a.port, "--baudrate", "115200",
      "--image", a.image, "-v", "debug">>

BuildCommand_firstOnly(cmd, a) ==
    IF cmd.t = "list" THEN <<cmd.v[1]>> \o UpdateArgs(a)
    ELSE <<cmd.v>> \o UpdateArgs(a)

BuildCommand(cmd, a) ==
    IF cmd.t = "list" THEN cmd.v \o UpdateArgs(a)
    ELSE <<cmd.v>> \o UpdateArgs(a)

StreamExhausted_never(p, buf) == FALSE

StreamExhausted(p, buf) == p.stdout = "closed" /\ buf = <<>>

(***************************************************************************)
(* Initial state: arguments parsed, nothing done yet                       *)
(***************************************************************************)
Init ==
    /\ args \in parse_arguments
    /\ pc = "start"
    /\ master = "unset"
    /\ trace = <<>>
    /\ valid_passwd = FALSE
    /\ ret = None
    /\ pymdfu_cmd = None
    /\ command = <<>>
    /\ process = NoProcess
    /\ pipe = <<>>
    /\ emitted = 0
    /\ logged = <<>>
    /\ return_code = 0
    /\ error = NoError
    /\ outcome = "none"
    /\ exit_status = -1
    /\ lastCall = NoCall

Raise(e) == pc' = "raised" /\ error' = e

Continue(r, there) ==
    IF r.raised # NoError THEN Raise(r.raised)
    ELSE pc' = there /\ error' = error

childVars == <<process, pipe, emitted>>
transferVars == <<pymdfu_cmd, command, process, pipe, emitted, logged, return_code>>
endVars == <<outcome, exit_status>>

(***************************************************************************)
(* run_firmware_update, one action per statement that acts                 *)
(***************************************************************************)
CheckImage ==
    /\ pc = "start"
    /\ IF MissingImage(args) THEN Raise(ValueError)
       ELSE /\ pc' = IF NeedsModbus(args) THEN "connect" ELSE "retry_sleep"
            /\ error' = error
    /\ UNCHANGED <<args, master, trace, valid_passwd, ret, lastCall>>
    /\ UNCHANGED transferVars
    /\ UNCHANGED endVars

Connect ==
    /\ pc = "connect"
    /\ \E res \in ConnectResults :
        LET r == NTNModbusMaster(args.port, res) IN
        /\ master' = r.master
        /\ trace' = trace \o r.evs
        /\ Continue(r, "passwd")
    /\ UNCHANGED <<args, valid_passwd, ret, lastCall>>
    /\ UNCHANGED transferVars
    /\ UNCHANGED endVars

PasswordClear ==
    /\ pc = "passwd"
    /\ \E res \in ExecuteResults :
        LET r == set_registers(master, REG_PASSWORD, PasswordBlock, res) IN
        /\ master' = r.master
        /\ trace' = trace \o r.evs
        /\ ret' = r.ret
        /\ IF r.raised # NoError
           THEN Raise(r.raised) /\ UNCHANGED valid_passwd
           ELSE /\ valid_passwd' = r.ret.v
                /\ IF AuthFailed(r.ret.v) THEN Raise(RuntimeError)
                   ELSE pc' = "engineering" /\ error' = error
    /\ UNCHANGED <<args, lastCall>>
    /\ UNCHANGED transferVars
    /\ UNCHANGED endVars

ModeWrite_abortsOnFault(here, reg, there) ==
    /\ pc = here
    /\ \E res \in ExecuteResults :
        LET r == set_register(master, reg, PyInt(SENTINEL), res) IN
        /\ master' = r.master
        /\ trace' = trace \o r.evs
        /\ ret' = r.ret
        /\ IF r.ret = PyBool(TRUE) THEN Continue(r, there)
           ELSE Raise(RuntimeError)
    /\ UNCHANGED <<args, valid_passwd, lastCall>>
    /\ UNCHANGED transferVars
    /\ UNCHANGED endVars

ModeWrite(here, reg, there) ==
    /\ pc = here
    /\ \E res \in ExecuteResults :
        LET r == set_register(master, reg, PyInt(SENTINEL), res) IN
        /\ master' = r.master
        /\ trace' = trace \o r.evs
        /\ ret' = r.ret
        /\ Continue(r, there)
    /\ UNCHANGED <<args, valid_passwd, lastCall>>
    /\ UNCHANGED transferVars
    /\ UNCHANGED endVars

EnableEngineering_skipsNext ==
    ModeWrite("engineering", REG_ENGINEERING, "reset")

EnableEngineering == ModeWrite("engineering", REG_ENGINEERING, "bootloader")

EnableBootloader_repeatsEngineering ==
    ModeWrite("bootloader", REG_ENGINEERING, "reset")

EnableBootloader == ModeWrite("bootloader", REG_BOOTLOADER, "reset")

ResetMCU == ModeWrite("reset", REG_RESET, "sleep_reset")

Sleep(here, ms, there) ==
    /\ pc = here
    /\ trace' = Append(trace, EvSleep(ms))
    /\ pc' = there
    /\ UNCHANGED <<args, master, valid_passwd, ret, error, lastCall>>
    /\ UNCHANGED transferVars
    /\ UNCHANGED endVars

SleepReset_skipsClose == Sleep("sleep_reset", 1000, "sleep_release")

SleepReset == Sleep("sleep_reset", 1000, "close")

Close ==
    /\ pc = "close"
    /\ \E res \in CloseResults :
        LET r == close(master, res) IN
        /\ master' = r.master
        /\ trace' = trace \o r.evs
        /\ ret' = r.ret
        /\ Continue(r, "sleep_release")
    /\ UNCHANGED <<args, valid_passwd, lastCall>>
    /\ UNCHANGED transferVars
    /\ UNCHANGED endVars

SleepRelease_backToReset == Sleep("sleep_release", 500, "reset")

SleepRelease == Sleep("sleep_release", 500, "find")

RetrySleep == Sleep("retry_sleep", 500, "find")

FindExecutable ==
    /\ pc = "find"
    /\ \E host \in Hosts :
        /\ pymdfu_cmd' = find_pymdfu_executable(host)
        /\ trace' = IF ProbeRuns(host) THEN Append(trace, EvProbe) ELSE trace
    /\ pc' = "build"
    /\ UNCHANGED <<args, master, valid_passwd, ret, error, lastCall>>
    /\ UNCHANGED <<command, process, pipe, emitted, logged, return_code>>
    /\ UNCHANGED endVars

Build ==
    /\ pc = "build"
    /\ command' = BuildCommand(pymdfu_cmd, args)
    /\ pc' = "spawn"
    /\ UNCHANGED <<args, master, trace, valid_passwd, ret, error, lastCall>>
    /\ UNCHANGED <<pymdfu_cmd, process, pipe, emitted, logged, return_code>>
    /\ UNCHANGED endVars

Spawn ==
    /\ pc = "spawn"
    /\ \E ok \in BOOLEAN :
        IF ok
        THEN /\ process' = [state |-> "running", stdout |-> "open",
                            port |-> FALSE, rc |-> 0]
             /\ trace' = Append(trace, EvSpawn(command))
             /\ pc' = "relay"
             /\ error' = error
        ELSE /\ Raise(SpawnError)
             /\ UNCHANGED <<process, trace>>
    /\ UNCHANGED <<args, master, valid_passwd, ret, lastCall>>
    /\ UNCHANGED <<pymdfu_cmd, command, pipe, emitted, logged, return_code>>
    /\ UNCHANGED endVars

Relay ==
    /\ pc = "relay"
    /\ IF StreamExhausted(process, pipe)
       THEN pc' = "wait" /\ UNCHANGED <<pipe, logged>>
       ELSE /\ pipe # <<>>
            /\ logged' = Append(logged, Head(pipe))
            /\ pipe' = Tail(pipe)
            /\ pc' = pc
    /\ UNCHANGED <<args, master, trace, valid_passwd, ret, error, lastCall>>
    /\ UNCHANGED <<pymdfu_cmd, command, process, emitted, return_code>>
    /\ UNCHANGED endVars

Wait ==
    /\ pc = "wait"
    /\ process.state = "exited"
    /\ return_code' = process.rc
    /\ IF TransferFailed(process.rc)
       THEN Raise(CalledProcessError(process.rc, command))
       ELSE pc' = "returned" /\ error' = error
    /\ UNCHANGED <<args, master, trace, valid_passwd, ret, lastCall>>
    /\ UNCHANGED <<pymdfu_cmd, command, process, pipe, emitted, logged>>
    /\ UNCHANGED endVars

(***************************************************************************)
(* main: the handler logs and re-raises, so the interpreter exits 1; a     *)
(* normal return exits 0.                                                  *)
(***************************************************************************)
MainExcept ==
    /\ pc = "raised"
    /\ pc' = "done"
    /\ outcome' = "failure"
    /\ exit_status' = 1
    /\ UNCHANGED <<args, master, trace, valid_passwd, ret, error, lastCall>>
    /\ UNCHANGED transferVars

MainReturn ==
    /\ pc = "returned"
    /\ pc' = "done"
    /\ outcome' = "success"
    /\ exit_status' = 0
    /\ UNCHANGED <<args, master, trace, valid_passwd, ret, error, lastCall>>
    /\ UNCHANGED transferVars

(***************************************************************************)
(* The spawned transfer process.  It opens the serial port named on its    *)
(* command line, writes lines to the pipe, and exits with some status;     *)
(* exiting closes its end of the pipe and its port.                        *)
(***************************************************************************)
orchVars == <<args, pc, master, trace, valid_passwd, ret, pymdfu_cmd, command,
              logged, return_code, error, outcome, exit_status, lastCall>>

ChildOpenPort ==
    /\ process.state = "running"
    /\ ~process.port
    /\ process' = [process EXCEPT !.port = TRUE]
    /\ UNCHANGED <<pipe, emitted>>
    /\ UNCHANGED orchVars

ChildWriteLine ==
    /\ process.state = "running"
    /\ process.stdout = "open"
    /\ emitted < MaxLines
    /\ emitted' = emitted + 1
    /\ pipe' = Append(pipe, emitted + 1)
    /\ UNCHANGED process
    /\ UNCHANGED orchVars

ChildCloseStdout ==
    /\ process.state = "running"
    /\ process.stdout = "open"
    /\ process' = [process EXCEPT !.stdout = "closed"]
    /\ UNCHANGED <<pipe, emitted>>
    /\ UNCHANGED orchVars

ChildExit ==
    /\ process.state = "running"
    /\ \E c \in ExitCodes :
        process' = [state |-> "exited", stdout |-> "closed",
                    port |-> FALSE, rc |-> c]
    /\ UNCHANGED <<pipe, emitted>>
    /\ UNCHANGED orchVars

Step ==
    \/ CheckImage
    \/ Connect
    \/ PasswordClear
    \/ EnableEngineering
    \/ EnableBootloader
    \/ ResetMCU
    \/ SleepReset
    \/ Close
    \/ SleepRelease
    \/ RetrySleep
    \/ FindExecutable
    \/ Build
    \/ Spawn
    \/ Relay
    \/ Wait
    \/ MainExcept
    \/ MainReturn

Child ==
    \/ ChildOpenPort
    \/ ChildWriteLine
    \/ ChildCloseStdout
    \/ ChildExit

Next == Step \/ Child

Spec == Init /\ [][Next]_vars

(***************************************************************************)
(* The interpreter keeps running the program, and the child is assumed to  *)
(* close its output and terminate.                                         *)
(***************************************************************************)
LiveSpec == Spec /\ WF_vars(Step) /\ WF_vars(ChildCloseStdout) /\ WF_vars(ChildExit)

(***************************************************************************)
(* The controller on its own: a connected NTNModbusMaster whose methods    *)
(* are called in any order with any arguments, against a transport that    *)
(* may fault on any operation.                                             *)
(***************************************************************************)
Registers == {REG_PASSWORD}
SingleValues == {None, PyInt(0), PyInt(SENTINEL)}
BlockValues == {None, PyTuple(<<>>), PasswordBlock}
Words == {0, 7}
Counts == {1, 2}
Replies(n) == [1..n -> Words]

Call(op, reg, val) == [op |-> op, reg |-> reg, val |-> val]

Connected ==
    [image |-> "fw.bin", port |-> "/dev/ttyUSB0", dev_id |-> DEFAULT_DEV_ID,
     retry |-> FALSE]

CtlInit ==
    /\ args = Connected
    /\ pc = "controller"
    /\ master = "open"
    /\ trace = <<EvOpen(Connected.port)>>
    /\ valid_passwd = FALSE
    /\ ret = None
    /\ pymdfu_cmd = None
    /\ command = <<>>
    /\ process = NoProcess
    /\ pipe = <<>>
    /\ emitted = 0
    /\ logged = <<>>
    /\ return_code = 0
    /\ error = NoError
    /\ outcome = "none"
    /\ exit_status = -1
    /\ lastCall = NoCall

Returns(r, call) ==
    /\ pc = "controller"
    /\ Len(trace) + Len(r.evs) <= MaxOps + 1
    /\ master' = r.master
    /\ trace' = trace \o r.evs
    /\ ret' = r.ret
    /\ lastCall' = call
    /\ error' = r.raised
    /\ UNCHANGED <<args, pc, valid_passwd>>
    /\ UNCHANGED transferVars
    /\ UNCHANGED endVars

CallReadRegister ==
    \E reg \in Registers : \E res \in ExecuteResults : \E out \in Replies(1) :
        Returns(read_register(master, reg, res, out),
                Call("read_register", reg, PyInt(1)))

CallReadRegisters ==
    \E reg \in Registers : \E num \in Counts :
    \E res \in ExecuteResults : \E out \in Replies(num) :
        Returns(read_registers(master, reg, num, res, out),
                Call("read_registers", reg, PyInt(num)))

CallSetRegisters ==
    \E reg \in Registers : \E val \in BlockValues : \E res \in ExecuteResults :
        Returns(set_registers(master, reg, val, res),
                Call("set_registers", reg, val))

CallSetRegister ==
    \E reg \in Registers : \E val \in SingleValues : \E res \in ExecuteResults :
        Returns(set_register(master, reg, val, res),
                Call("set_register", reg, val))

CallClose ==
    \E res \in CloseResults :
        Returns(close(master, res), Call("close", 0, None))

CtlNext ==
    \/ CallReadRegister
    \/ CallReadRegisters
    \/ CallSetRegisters
    \/ CallSetRegister
    \/ CallClose

CtlSpec == CtlInit /\ [][CtlNext]_vars

(***************************************************************************)
(* Views of the trace used by the properties                               *)
(***************************************************************************)
IsExecute(e) == e.ev = "execute"
IsWrite(e) ==
    /\ e.ev = "execute"
    /\ e.fc \in {WRITE_SINGLE_REGISTER, WRITE_MULTIPLE_REGISTERS}
Executes == SelectSeq(trace, IsExecute)
Writes == SelectSeq(trace, IsWrite)
Has(kind) == \E i \in 1..Len(trace) : trace[i].ev = kind
Spawned == Has("spawn")
Fresh == ~args.retry /\ args.image # ""
WriteTo(e) == [fc |-> e.fc, reg |-> e.reg, val |-> e.val]
WritesIssued == [i \in 1..Len(Writes) |-> WriteTo(Writes[i])]
IsPrefix(a, b) == Len(a) <= Len(b) /\ \A i \in 1..Len(a) : a[i] = b[i]
UnlockOrder ==
    <<[fc |-> 16, reg |-> 0, val |-> PyTuple(<<0, 0, 0, 0>>)],
      [fc |-> 6, reg |-> 65488, val |-> PyInt(43605)],
      [fc |-> 6, reg |-> 53248, val |-> PyInt(43605)],
      [fc |-> 6, reg |-> 64768, val |-> PyInt(43605)]>>
AllAccepted == \A i \in 1..Len(Writes) : Writes[i].res = "ok"
PasswordRejected == ret.t = "bool" /\ ~valid_passwd

(* C1: in a fresh attempt whose password-clear write did not return true,  *)
(* exactly one write was attempted, none of the engineering, bootloader or *)
(* reset writes is issued, the transfer process is never spawned, and the  *)
(* attempt is failing or has failed.                                       *)
C1_AuthFailureAborts ==
    (Fresh /\ PasswordRejected) =>
        /\ Len(Writes) = 1
        /\ Writes[1].reg = 0
        /\ ~Spawned
        /\ process = NoProcess
        /\ pc \in {"raised", "done"}
        /\ error.kind = "RuntimeError"
        /\ (pc = "done" => outcome = "failure" /\ exit_status # 0)

C1_Witness ==
    /\ Fresh
    /\ PasswordRejected
    /\ pc = "done"
    /\ outcome = "failure"
    /\ Len(Writes) = 1

(* C2: in a fresh attempt on a device that accepts every write, the writes *)
(* issued so far are a prefix of password-clear, engineering, bootloader,  *)
(* reset, and once the transfer process is spawned all four were issued,   *)
(* each before the spawn.                                                  *)
C2_UnlockOrder ==
    (Fresh /\ AllAccepted) =>
        /\ IsPrefix(WritesIssued, UnlockOrder)
        /\ (pc \notin {"start", "connect", "passwd", "engineering",
                       "bootloader", "reset", "raised", "done"}
                => WritesIssued = UnlockOrder)
        /\ (pc = "done" /\ outcome = "success" => WritesIssued = UnlockOrder)
        /\ \A i \in 1..Len(trace) : \A j \in 1..Len(trace) :
            (trace[i].ev = "spawn" /\ trace[j].ev = "execute") => j < i

C2_Witness ==
    /\ Fresh
    /\ AllAccepted
    /\ Spawned
    /\ WritesIssued = UnlockOrder

(* C3: in retry mode with an image path, no connection is ever opened and  *)
(* no register read or write is issued: the program only sleeps, resolves  *)
(* the executable and runs the transfer process.                           *)
C3_RetrySkipsModbus ==
    (args.retry /\ args.image # "") =>
        /\ master = "unset"
        /\ ~Has("open")
        /\ ~Has("execute")
        /\ ~Has("close")
        /\ pc \in {"start", "retry_sleep", "find", "build", "spawn", "relay",
                   "wait", "returned", "raised", "done"}

C3_Witness ==
    /\ args.retry
    /\ args.image # ""
    /\ Spawned
    /\ pc = "done"

(* C4: with an empty image path, whatever the retry flag, the attempt      *)
(* fails with ValueError and nothing is done to the device or the host: no *)
(* connection, no transport operation, no transfer process.                *)
C4_MissingImageFails ==
    (args.image = "") =>
        /\ trace = <<>>
        /\ master = "unset"
        /\ process = NoProcess
        /\ pc \in {"start", "raised", "done"}
        /\ (pc # "start" => error.kind = "ValueError")
        /\ (pc = "done" => outcome = "failure" /\ exit_status # 0)

C4_Witness ==
    /\ args.image = ""
    /\ args.retry
    /\ pc = "done"
    /\ outcome = "failure"

(* C5: the controller of this process and the spawned transfer process     *)
(* never hold the serial port open at the same time.                       *)
C5_ExclusiveChannel == ~(master = "open" /\ process.port)

(* C6: when the attempt has ended, the connection it opened is closed.     *)
C6_NoLeakAtEnd == pc = "done" => master # "open"

(* C7: the attempt succeeds only after the transfer process was spawned    *)
(* and exited with status zero, and an attempt that ended with any error   *)
(* (usage, connection, authentication, spawn, transfer) is a failure with  *)
(* a non-zero exit status.                                                 *)
C7_SuccessOnlyAfterTransfer ==
    /\ (outcome = "success" =>
            /\ Spawned
            /\ process.state = "exited"
            /\ process.rc = 0
            /\ exit_status = 0
            /\ error = NoError)
    /\ (pc = "done" /\ (error # NoError \/ process.rc # 0) =>
            outcome = "failure" /\ exit_status # 0)
    /\ (pc = "done" /\ ~Spawned => outcome = "failure")

C7_Witness ==
    /\ outcome = "success"
    /\ Fresh
    /\ Len(logged) > 0

(* C8: once the transfer process has been waited for, a non-zero status c  *)
(* has raised CalledProcessError carrying c, and a zero status has raised  *)
(* nothing.                                                                *)
C8_TransferErrorCarriesCode ==
    (process.state = "exited" /\ pc \in {"raised", "returned", "done"}) =>
        IF process.rc # 0
        THEN /\ error.kind = "CalledProcessError"
             /\ error.returncode = process.rc
             /\ return_code = process.rc
        ELSE error = NoError

C8_Witness ==
    /\ pc = "done"
    /\ process.state = "exited"
    /\ process.rc = 3
    /\ error.kind = "CalledProcessError"

(* C9: every attempt ends, and ends with exactly one outcome: eventually   *)
(* the program is done for good with outcome success or failure, and it    *)
(* has no outcome before it is done.                                       *)
C9_TerminatesWithOneOutcome ==
    /\ <>[](pc = "done" /\ outcome \in {"success", "failure"})
    /\ [](pc # "done" <=> outcome = "none")
    /\ [](outcome = "success" <=> exit_status = 0)

C9_Witness ==
    /\ pc = "done"
    /\ outcome = "success"
    /\ Len(logged) > 0
    /\ args.retry

(* C10: a call of set_register or set_registers whose value is None        *)
(* returns False and issues no transport operation: the trace and the      *)
(* connection are left as they were, on every such call.                   *)
C10_AbsentValueIsNoOp ==
    [][(/\ lastCall'.op \in {"set_register", "set_registers"}
        /\ IsNone(lastCall'.val))
            => /\ ret' = PyBool(FALSE)
               /\ trace' = trace
               /\ master' = master]_vars

C10_Witness ==
    /\ lastCall.op = "set_registers"
    /\ IsNone(lastCall.val)
    /\ ret = PyBool(FALSE)
    /\ Len(Writes) > 0

LastEvent == trace[Len(trace)]
AllZero(out) == \A i \in 1..Len(out) : out[i] = 0

(* C11: a call of set_registers with an empty tuple of values returns      *)
(* False and issues no transport write, as a call with None does.          *)
C11_EmptyPayloadIsNoOp ==
    [][(/\ lastCall'.op = "set_registers"
        /\ lastCall'.val.t = "tuple"
        /\ lastCall'.val.v = <<>>)
            => /\ ret' = PyBool(FALSE)
               /\ trace' = trace]_vars

(* C12: after a read whose transport reply arrived, the method returned    *)
(* None when every word of the reply is zero; otherwise read_register      *)
(* returned the one word and read_registers the whole reply, unchanged.    *)
C12_ZeroReadsAreAbsent ==
    (/\ lastCall.op \in {"read_register", "read_registers"}
     /\ LastEvent.ev = "execute"
     /\ LastEvent.res = "ok") =>
        /\ LastEvent.fc = READ_INPUT_REGISTERS
        /\ Len(LastEvent.out) = lastCall.val.v
        /\ IF AllZero(LastEvent.out) THEN ret = None
           ELSE IF lastCall.op = "read_register"
                THEN ret = PyInt(LastEvent.out[1])
                ELSE ret = PyTuple(LastEvent.out)

C12_Witness ==
    /\ lastCall.op = "read_registers"
    /\ LastEvent.ev = "execute"
    /\ LastEvent.res = "ok"
    /\ LastEvent.out = <<0, 7>>
    /\ ret = PyTuple(<<0, 7>>)

WriteCodes == {WRITE_SINGLE_REGISTER, WRITE_MULTIPLE_REGISTERS}
ReadCalls == {"read_register", "read_registers"}
WriteCalls == {"set_register", "set_registers"}

(* C13: on a connected controller no method lets a fault out: a read whose *)
(* transport operation faulted returned None, a write whose transport      *)
(* operation faulted returned False, and a method returned True only for a *)
(* write whose transport operation completed.                              *)
C13_FaultsBecomeSentinels ==
    /\ error = NoError
    /\ (/\ lastCall.op \in ReadCalls
        /\ LastEvent.ev = "execute"
        /\ Faulted(LastEvent.res)) => ret = None
    /\ (/\ lastCall.op \in WriteCalls
        /\ ~IsNone(lastCall.val)
        /\ LastEvent.ev = "execute"
        /\ Faulted(LastEvent.res)) => ret = PyBool(FALSE)
    /\ (ret = PyBool(TRUE)) =>
        /\ lastCall.op \in WriteCalls
        /\ LastEvent.ev = "execute"
        /\ LastEvent.fc \in WriteCodes
        /\ LastEvent.res = "ok"

C13_Witness ==
    /\ lastCall.op = "set_register"
    /\ ~IsNone(lastCall.val)
    /\ LastEvent.ev = "execute"
    /\ LastEvent.res = "timeout"
    /\ ret = PyBool(FALSE)
    /\ error = NoError

(* C14: a fresh attempt whose connection could not be opened has raised    *)
(* the connection fault: it issued no register operation at all, never     *)
(* spawned the transfer process, and is failing or has failed.             *)
C14_ConnectFailureAborts ==
    (Fresh /\ pc \notin {"start", "connect"} /\ ~Has("open")) =>
        /\ error.kind \in {"ModbusError", "SerialException"}
        /\ pc \in {"raised", "done"}
        /\ trace = <<>>
        /\ master = "unset"
        /\ process = NoProcess
        /\ (pc = "done" => outcome = "failure" /\ exit_status # 0)

C14_Witness ==
    /\ Fresh
    /\ pc = "done"
    /\ error.kind = "ModbusError"
    /\ outcome = "failure"
    /\ trace = <<>>

(* C15: close() never raises, whatever the underlying close does and       *)
(* whether or not the connection is already closed, it returns None, and   *)
(* called on a closed connection it leaves the connection closed.          *)
C15_CloseTotalIdempotent ==
    [][(lastCall'.op = "close") =>
            /\ error' = NoError
            /\ ret' = None
            /\ (master = "closed" => master' = "closed")
            /\ (Len(trace') > Len(trace) =>
                    /\ trace'[Len(trace')].ev = "close"
                    /\ (trace'[Len(trace')].res = "ok" => master' = "closed"))]_vars

C15_Witness ==
    /\ lastCall.op = "close"
    /\ Len(trace) >= 3
    /\ trace[Len(trace) - 1].ev = "close"
    /\ LastEvent.ev = "close"
    /\ LastEvent.res = "raised_held"
    /\ master = "closed"
    /\ error = NoError

Invocation == IF pymdfu_cmd.t = "list" THEN pymdfu_cmd.v ELSE <<pymdfu_cmd.v>>
Tail11(c) == SubSeq(c, Len(c) - 10, Len(c))
Head11(c) == SubSeq(c, 1, Len(c) - 11)

(* C16: once built, the command is the resolved invocation (one word, or   *)
(* the three words of the module form) followed by exactly update --tool   *)
(* serial --port <port> --baudrate 115200 --image <image> -v debug with    *)
(* the operator's port and image, and that is the command spawned.         *)
C16_CommandShape ==
    (command # <<>>) =>
        /\ pymdfu_cmd.t \in {"str", "list"}
        /\ Len(command) = Len(Invocation) + 11
        /\ Head11(command) = Invocation
        /\ Tail11(command) =
            <<"update", "--tool", "serial", "--port", args.port,
              "--baudrate", "115200", "--image", args.image, "-v", "debug">>
        /\ \A i \in 1..Len(trace) :
            trace[i].ev = "spawn" => trace[i].cmd = command

C16_Witness ==
    /\ Spawned
    /\ pymdfu_cmd.t = "list"
    /\ Len(command) = 14
    /\ args.port = "COM3"

NotProbe(e) == e.ev # "probe"
HandOff == SelectSeq(trace, NotProbe)
CountOf(P(_)) == Cardinality({i \in 1..Len(trace) : P(trace[i])})
IsOpen(e) == e.ev = "open"
IsSpawn(e) == e.ev = "spawn"
SomeModeWriteFaulted ==
    \E i \in 1..Len(Writes) : Writes[i].fc = 6 /\ Writes[i].res # "ok"

(* C17: in a fresh attempt whose password-clear write returned True, the   *)
(* engineering, bootloader and reset writes are all issued whatever their  *)
(* results, none of them makes the attempt fail (only the spawn or the     *)
(* transfer can), and from the first of them the program always goes on to *)
(* spawn the transfer process.                                             *)
C17_ModeWritesBestEffort ==
    /\ []((Fresh /\ valid_passwd) =>
            /\ (pc \notin {"engineering", "bootloader", "reset"}
                    => WritesIssued = UnlockOrder)
            /\ (error # NoError =>
                    error.kind \in {"FileNotFoundError", "CalledProcessError"}))
    /\ ((Fresh /\ valid_passwd /\ pc = "engineering") ~> (pc = "spawn"))

C17_Witness ==
    /\ Fresh
    /\ valid_passwd
    /\ SomeModeWriteFaulted
    /\ Writes[2].res = "timeout"
    /\ Spawned
    /\ outcome = "success"

(* C18: when a fresh attempt has spawned the transfer process, what it did *)
(* before, leaving aside the search for the executable, ends with: reset   *)
(* write, 1 s sleep, close, 0.5 s sleep, spawn.                            *)
C18_HandOffOrder ==
    (Fresh /\ Spawned) =>
        LET T == HandOff
            n == Len(HandOff)
        IN  /\ n = 9
            /\ T[n].ev = "spawn"
            /\ T[n - 1] = [ev |-> "sleep", ms |-> 500]
            /\ T[n - 2].ev = "close"
            /\ T[n - 3] = [ev |-> "sleep", ms |-> 1000]
            /\ T[n - 4].ev = "execute"
            /\ T[n - 4].fc = 6
            /\ T[n - 4].reg = 64768

C18_Witness ==
    /\ Fresh
    /\ Spawned
    /\ Has("probe")
    /\ process.state = "exited"

(* C19: within one attempt the connection is opened at most once, the      *)
(* transfer process is spawned at most once, and each of the four unlock   *)
(* registers is written at most once, whatever failed.                     *)
C19_NoAutomaticRetry ==
    /\ CountOf(IsOpen) <= 1
    /\ CountOf(IsSpawn) <= 1
    /\ Len(Executes) <= 4
    /\ \A reg \in {0, 65488, 53248, 64768} :
        Cardinality({i \in 1..Len(Writes) : Writes[i].reg = reg}) <= 1

C19_Witness ==
    /\ pc = "done"
    /\ outcome = "failure"
    /\ Len(Writes) = 4
    /\ SomeModeWriteFaulted
    /\ process.rc = 1

(* C20: after close() has been called, this process issues no further      *)
(* register read or write.                                                 *)
C20_NoUseAfterClose ==
    \A i \in 1..Len(trace) : \A j \in 1..Len(trace) :
        (trace[i].ev = "close" /\ i < j) => trace[j].ev # "execute"

C20_Witness ==
    /\ Has("close")
    /\ Spawned
    /\ pc = "done"
    /\ LastEvent.ev = "spawn"

====
